---- MODULE Spec2Model ----
(***************************************************************************)
(* A model of backend/character_routes.py of manga_creator: the code       *)
(* generator (generate_code) with the create/delete handlers that use it,  *)
(* the fan-out workflow (generate_character_variants), the bulk workflow    *)
(* (bulk_generate_characters) and the handlers that take a character id    *)
(* (get, update, delete, generate-avatar, costumes, age states, costume    *)
(* image), over the tables of models.py.                                   *)
(*                                                                         *)
(* Strings are modelled by what the code does with them: a code is a       *)
(* prefix and a suffix, the suffix a sequence of characters (0..9 are the  *)
(* digits), formatted by Format04, parsed by ParseInt and ordered by the   *)
(* lexicographic order ORDER BY uses.                                      *)
(***************************************************************************)
EXTENDS Integers, Sequences, FiniteSets, TLC

VARIABLES
    char_code_unique, \* whether the store enforces uniqueness of characters.char_code
    characters,       \* rows of table characters
    costumes,         \* rows of table costumes
    age_states,       \* rows of table age_states
    nextId,           \* next value of the serial primary keys
    req,              \* per client: the request it is serving and its position
    nreq,             \* number of requests started so far
    maxIssued,        \* greatest number of a code generate_code("C", ...) has returned
    ndeleted          \* number of characters deleted so far

codeVars == <<char_code_unique, characters, costumes, age_states, nextId, req,
              nreq, maxIssued, ndeleted>>

VARIABLES
    fan_pc,           \* generate_character_variants: "idle", "gather" or "done"
    fan_request,      \* its CharacterGenerationRequest
    tasks,            \* the generation task of each style variation
    fan_response,     \* what the handler answered
    bulk_pc,          \* bulk_generate_characters: "idle", "call", "sleep" or "done"
    bulk_input,       \* request.characters
    bulk_i,           \* index of the item the loop is at
    bulk_prompt,      \* the prompt of the generation call in flight
    results,          \* the result records appended so far
    bulk_calls        \* per generation call made: the item, the answer, whether it succeeded

fanVars == <<fan_pc, fan_request, tasks, fan_response>>

bulkVars == <<bulk_pc, bulk_input, bulk_i, bulk_prompt, results, bulk_calls>>

VARIABLES
    character_changes,  \* rows of table character_changes
    generation_history, \* rows of table generation_history, in insertion order
    outbound,           \* generation calls sent so far by the handlers that use the store
    db_faults           \* whether a commit of this run may fail in the store

storeVars == <<character_changes, generation_history, outbound, db_faults>>

vars == <<codeVars, fanVars, bulkVars, storeVars>>

----------------------------------------------------------------------------
(* Bounds of the model *)

NumClients == 2
MaxReq == 6
MaxMixed == 4
HighStart == 9998
MaxBulk == 3
MaxStore == 2
MaxChars == 2

Clients == 1..NumClients

----------------------------------------------------------------------------
(* generate_code: formatting, parsing and ordering of codes *)

max_retries == 5

Width == 4

Digit == 0..9

Max(a, b) == IF a >= b THEN a ELSE b

RECURSIVE Digits(_)
Digits(n) == IF n < 10 THEN <<n>> ELSE Digits(n \div 10) \o <<n % 10>>

RECURSIVE ZeroPad(_)
ZeroPad(s) == IF Len(s) >= Width THEN s ELSE ZeroPad(<<0>> \o s)

\* f"{new_number:04d}"
Format04(n) == ZeroPad(Digits(n))

\* f"{prefix}-{new_number:04d}"
NewCode(prefix, n) == [prefix |-> prefix, suffix |-> Format04(n)]

RECURSIVE DigitsValue(_)
DigitsValue(s) ==
    IF s = <<>> THEN 0 ELSE 10 * DigitsValue(SubSeq(s, 1, Len(s) - 1)) + s[Len(s)]

\* int(code.split('-')[-1]) with the ValueError fallback to 0
ParseInt(s) ==
    IF s = <<>> \/ \E i \in 1..Len(s) : s[i] \notin Digit THEN 0 ELSE DigitsValue(s)

RECURSIVE LexLeq(_, _)
LexLeq(a, b) ==
    IF a = <<>> THEN TRUE
    ELSE IF b = <<>> THEN FALSE
    ELSE IF a[1] # b[1] THEN a[1] < b[1]
    ELSE LexLeq(Tail(a), Tail(b))

----------------------------------------------------------------------------
(* The tables of models.py *)

\* an Optional value or a nullable column: <<>> is None, <<v>> is v
None == <<>>

Some(v) == <<v>>

ModelClasses == {"Character", "Costume", "AgeState"}

\* the column of each mapped class that holds its code
CodeColumn(model_class) ==
    CASE model_class = "Character" -> "char_code"
      [] model_class = "Costume"   -> "costume_code"
      [] model_class = "AgeState"  -> "age_code"

\* generate_code reads model_class.char_code whatever class it is handed
HasCharCode(model_class) == CodeColumn(model_class) = "char_code"

\* unique=True on the code column; characters.char_code declares none, so
\* whether the store enforces it is a property of the database at hand
UniqueCode(model_class) ==
    IF model_class = "Character" THEN char_code_unique ELSE TRUE

Table(model_class) ==
    CASE model_class = "Character" -> characters
      [] model_class = "Costume"   -> costumes
      [] model_class = "AgeState"  -> age_states

\* .filter(char_code.like(f"{prefix}-%"))
WithPrefix(rows, prefix) == {r \in rows : r.code.prefix = prefix}

\* .order_by(char_code.desc()).first() over a non-empty set of rows
LastCode(rows) ==
    (CHOOSE r \in rows : \A o \in rows : LexLeq(o.code.suffix, r.code.suffix)).code

\* lines 33-43: the number of the lexicographically greatest code, or 0
LastNumber(rows, prefix) ==
    IF WithPrefix(rows, prefix) = {} THEN 0
    ELSE ParseInt(LastCode(WithPrefix(rows, prefix)).suffix)

\* a pre-check that never finds the candidate
PreCheckBlind(rows, new_code) == FALSE

\* line 50: the pre-check finds a row that already carries new_code
PreCheckHit(rows, new_code) == \E r \in rows : r.code = new_code

\* the uniqueness constraint rejects the insert (IntegrityError at commit)
IntegrityViolation(model_class, new_code) ==
    UniqueCode(model_class) /\ \E r \in Table(model_class) : r.code = new_code

----------------------------------------------------------------------------
(* Requests *)

NoCode == [prefix |-> "", suffix |-> <<>>]

Idle ==
    [op |-> "idle", pc |-> "idle", model_class |-> "Character", prefix |-> "",
     character_id |-> 0, attempt |-> 0, gattempt |-> 0, new_code |-> NoCode,
     gen |-> "none", emptyAtCall |-> FALSE, collisions |-> 0, status |-> 0,
     added |-> {}, backoff |-> 0, costume_id |-> 0, prompt |-> <<>>,
     upstream |-> "", response |-> None]

Free(c) == req[c].pc \in {"idle", "done"}

\* no other request is in flight: the single-threaded runs
Quiet(c) == \A d \in Clients \ {c} : Free(d)

\* entry of generate_code(prefix, db, model_class)
EnterGen(r) ==
    [r EXCEPT !.pc = "gen_query", !.gattempt = 0, !.gen = "running",
              !.new_code = NoCode,
              !.emptyAtCall = (WithPrefix(Table(r.model_class), r.prefix) = {})]

\* the handler's except Exception: rollback, HTTP 500
Fail500(r) == [r EXCEPT !.pc = "done", !.status = 500]

\* a lookup that answers as if the row had been found
NotFoundIgnored(r) == [r EXCEPT !.pc = "done", !.status = 200]

\* the HTTPException(404) of the handlers that look a row up first
NotFound(r) == [r EXCEPT !.pc = "done", !.status = 404]

\* the sleeps of lines 57 and 126 last 0.1 s times the number of the attempt
\* that failed; backoff holds that number for the sleep a request has just
\* made, and 0 when it goes on without one
Sleep(r, n) == [r EXCEPT !.backoff = n]

NoSleep(r) == [r EXCEPT !.backoff = 0]

\* an iteration of generate_code's loop ended without a return: the next
\* iteration, or line 59 after the last one, which the caller turns into a 500
GenNextAttempt(r) ==
    IF r.gattempt + 1 >= max_retries
    THEN Fail500([r EXCEPT !.gattempt = r.gattempt + 1, !.gen = "raised"])
    ELSE [r EXCEPT !.gattempt = r.gattempt + 1, !.pc = "gen_query"]

ExistsCharacter(id) == \E r \in characters : r.id = id

\* the ids a caller may name: those stored, and one that is not
IdsToTry == {r.id : r \in characters} \cup {0}

StartReq(c) == Free(c) /\ nreq < MaxReq /\ nreq' = nreq + 1

\* POST /characters, lines 104-109
StartCreateCharacter(c) ==
    /\ StartReq(c)
    /\ req' = [req EXCEPT ![c] =
                 EnterGen([Idle EXCEPT !.op = "create_character",
                                       !.model_class = "Character",
                                       !.prefix = "C"])]
    /\ UNCHANGED <<char_code_unique, characters, costumes, age_states, nextId,
                   maxIssued, ndeleted, fanVars, bulkVars, storeVars>>

\* POST /characters/{id}/costumes and /age-states, lines 263-270 and 323-330
StartCreateDependent(c, op, character_id) ==
    /\ StartReq(c)
    /\ LET r == [Idle EXCEPT !.op = op,
                             !.model_class =
                                 IF op = "create_costume" THEN "Costume" ELSE "AgeState",
                             !.prefix = IF op = "create_costume" THEN "CO" ELSE "A",
                             !.character_id = character_id]
       IN req' = [req EXCEPT ![c] =
                    IF ExistsCharacter(character_id)
                    THEN EnterGen(r)
                    ELSE NotFound(r)]
    /\ UNCHANGED <<char_code_unique, characters, costumes, age_states, nextId,
                   maxIssued, ndeleted, fanVars, bulkVars, storeVars>>

\* lines 33-46 of generate_code: read the last code, compute the candidate;
\* model_class.char_code raises for a class without that attribute, which the
\* except of lines 55-57 catches
GenQuery(c) ==
    /\ req[c].pc = "gen_query"
    /\ LET r == req[c] IN
       req' = [req EXCEPT ![c] =
                 IF ~HasCharCode(r.model_class)
                 THEN GenNextAttempt(Sleep(r, r.gattempt + 1))
                 ELSE [r EXCEPT !.pc = "gen_check",
                                !.new_code =
                                    NewCode(r.prefix,
                                            LastNumber(Table(r.model_class), r.prefix) + 1)]]
    /\ UNCHANGED <<char_code_unique, characters, costumes, age_states, nextId,
                   nreq, maxIssued, ndeleted, fanVars, bulkVars, storeVars>>

\* where the handler goes on once it holds a code
AfterCode(r) == [r EXCEPT !.pc = "insert", !.gen = "returned"]

\* lines 50-54 of generate_code: the pre-check, then continue or return
GenCheck(c) ==
    /\ req[c].pc = "gen_check"
    /\ LET r == req[c]
           hit == PreCheckHit(Table(r.model_class), r.new_code)
       IN /\ req' = [req EXCEPT ![c] =
                         IF hit THEN GenNextAttempt(NoSleep(r)) ELSE AfterCode(r)]
          /\ maxIssued' = IF ~hit /\ r.prefix = "C"
                          THEN Max(maxIssued, ParseInt(r.new_code.suffix))
                          ELSE maxIssued
    /\ UNCHANGED <<char_code_unique, characters, costumes, age_states, nextId,
                   nreq, ndeleted, fanVars, bulkVars, storeVars>>

\* ForeignKey("characters.id") of models.py 34 and 49: the store rejects a
\* costume or an age state whose character is not stored (IntegrityError)
ForeignKeyViolation(r) ==
    r.model_class # "Character" /\ \A x \in characters : x.id # r.character_id

\* a handler that gives up on the first IntegrityError
InsertNoRetry(r) ==
    Fail500([r EXCEPT !.attempt = r.attempt + 1, !.collisions = r.collisions + 1])

\* the except IntegrityError of the create handlers: rollback, sleep, retry,
\* and the 500 after the loop
InsertRetry(r) ==
    IF r.attempt + 1 >= max_retries
    THEN Fail500(Sleep([r EXCEPT !.attempt = r.attempt + 1,
                                 !.collisions = r.collisions + 1],
                       r.attempt + 1))
    ELSE EnterGen(Sleep([r EXCEPT !.attempt = r.attempt + 1,
                                  !.collisions = r.collisions + 1],
                        r.attempt + 1))

\* the bodies the create requests carry
CharacterBody == [name |-> "Aki", description |-> None, age |-> None, image_url |-> None]

CostumeBody == [name |-> "armor", description |-> Some("red plate armor")]

AgeStateBody == [age |-> 30]

\* lines 111-118, 272-278 and 332-337: the row a create handler adds
NewRow(r) ==
    CASE r.model_class = "Character" ->
            [id |-> nextId, code |-> r.new_code, name |-> CharacterBody.name,
             description |-> CharacterBody.description, age |-> CharacterBody.age,
             image_url |-> CharacterBody.image_url]
      [] r.model_class = "Costume" ->
            [id |-> nextId, code |-> r.new_code, character_id |-> r.character_id,
             name |-> CostumeBody.name, description |-> CostumeBody.description,
             image_url |-> None]
      [] r.model_class = "AgeState" ->
            [id |-> nextId, code |-> r.new_code, character_id |-> r.character_id,
             age |-> AgeStateBody.age, image_url |-> None]

\* what db.commit() may do: it commits, or, in a run with a faulty store, it
\* raises and nothing of the transaction is stored
CommitOutcomes == IF db_faults THEN BOOLEAN ELSE {TRUE}

\* db.add(...); db.commit(); db.refresh(...); return
Insert(c) ==
    /\ req[c].pc = "insert"
    /\ \E ok \in CommitOutcomes :
       LET r == req[c] IN
       IF IntegrityViolation(r.model_class, r.new_code) \/ ForeignKeyViolation(r)
       THEN /\ req' = [req EXCEPT ![c] = InsertRetry(r)]
            /\ UNCHANGED <<characters, costumes, age_states, nextId>>
       ELSE IF ~ok
       THEN /\ req' = [req EXCEPT ![c] = Fail500(r)]
            /\ UNCHANGED <<characters, costumes, age_states, nextId>>
       ELSE /\ req' = [req EXCEPT ![c] =
                         [r EXCEPT !.pc = "done", !.status = 200, !.added = {nextId}]]
            /\ nextId' = nextId + 1
            /\ characters' = IF r.model_class = "Character"
                             THEN characters \cup {NewRow(r)} ELSE characters
            /\ costumes' = IF r.model_class = "Costume"
                           THEN costumes \cup {NewRow(r)} ELSE costumes
            /\ age_states' = IF r.model_class = "AgeState"
                             THEN age_states \cup {NewRow(r)} ELSE age_states
    /\ UNCHANGED <<char_code_unique, nreq, maxIssued, ndeleted, fanVars, bulkVars, storeVars>>

\* a delete that leaves the rows of the related tables behind
NoCascade(rows, character_id) == rows

\* cascade="all, delete-orphan" of models.py 25-27: the rows of a related
\* table that reference the character go with it
Cascade(rows, character_id) == {x \in rows : x.character_id # character_id}

\* a delete that also removes the history rows of the character
PurgeHistory(history, character_id) ==
    SelectSeq(history, LAMBDA h : ~(h.entity_type = "character" /\ h.entity_id = character_id))

\* generation_history has no foreign key and no relationship (models.py
\* 113-124): a delete does not reach it
KeepHistory(history, character_id) == history

\* DELETE /characters/{id}, lines 448-456, with the cascade of models.py 25-27;
\* a commit that raises leaves the handler with an unhandled exception, which
\* the framework answers with a 500
DeleteCharacter(c, character_id) ==
    /\ StartReq(c)
    /\ \E ok \in CommitOutcomes :
       LET r == [Idle EXCEPT !.op = "delete_character", !.pc = "done",
                             !.character_id = character_id]
       IN IF ~ExistsCharacter(character_id)
          THEN /\ req' = [req EXCEPT ![c] = NotFound(r)]
               /\ UNCHANGED <<characters, costumes, age_states, ndeleted,
                              character_changes, generation_history>>
          ELSE IF ~ok
          THEN /\ req' = [req EXCEPT ![c] = Fail500(r)]
               /\ UNCHANGED <<characters, costumes, age_states, ndeleted,
                              character_changes, generation_history>>
          ELSE /\ characters' = {x \in characters : x.id # character_id}
               /\ costumes' = Cascade(costumes, character_id)
               /\ age_states' = Cascade(age_states, character_id)
               /\ character_changes' = Cascade(character_changes, character_id)
               /\ generation_history' = KeepHistory(generation_history, character_id)
               /\ ndeleted' = ndeleted + 1
               /\ req' = [req EXCEPT ![c] = [r EXCEPT !.status = 200]]
    /\ UNCHANGED <<char_code_unique, nextId, maxIssued, fanVars, bulkVars,
                   outbound, db_faults>>

\* create_character run from its first line to its return with no statement of
\* another session in between: the table is the same at every read, so the
\* pre-check either passes at once or hits in all max_retries iterations
CreateCharacterAtomic(c) ==
    /\ StartReq(c)
    /\ LET r == EnterGen([Idle EXCEPT !.op = "create_character",
                                      !.model_class = "Character",
                                      !.prefix = "C"])
           code == NewCode("C", LastNumber(characters, "C") + 1)
           q == [r EXCEPT !.new_code = code]
       IN IF PreCheckHit(characters, code)
          THEN /\ req' = [req EXCEPT ![c] =
                            Fail500([q EXCEPT !.gattempt = max_retries,
                                              !.gen = "raised"])]
               /\ UNCHANGED <<characters, nextId, maxIssued>>
          ELSE /\ req' = [req EXCEPT ![c] =
                            [AfterCode(q) EXCEPT !.pc = "done", !.status = 200,
                                                 !.added = {nextId}]]
               /\ characters' = characters \cup {NewRow(q)}
               /\ nextId' = nextId + 1
               /\ maxIssued' = Max(maxIssued, ParseInt(code.suffix))
    /\ UNCHANGED <<char_code_unique, costumes, age_states, ndeleted, fanVars, bulkVars, storeVars>>

----------------------------------------------------------------------------
(* generate_image_with_pollinations *)

\* Python truthiness of an Optional[int] and of an Optional[str]
TruthyInt(o) == o # None /\ o[1] # 0

TruthyStr(o) == o # None /\ o[1] # ""

DigitChar == <<"0", "1", "2", "3", "4", "5", "6", "7", "8", "9">>

\* str(n) of a natural number, one token per digit
DecimalText(n) == [i \in 1..Len(Digits(n)) |-> DigitChar[Digits(n)[i] + 1]]

\* base64.b64encode: three bytes make four 6-bit symbols, 64 is the padding
RECURSIVE B64(_)
B64(bytes) ==
    IF Len(bytes) = 0 THEN <<>>
    ELSE IF Len(bytes) = 1
         THEN <<bytes[1] \div 4, (bytes[1] % 4) * 16, 64, 64>>
    ELSE IF Len(bytes) = 2
         THEN <<bytes[1] \div 4,
                (bytes[1] % 4) * 16 + bytes[2] \div 16,
                (bytes[2] % 16) * 4,
                64>>
    ELSE <<bytes[1] \div 4,
           (bytes[1] % 4) * 16 + bytes[2] \div 16,
           (bytes[2] % 16) * 4 + bytes[3] \div 64,
           bytes[3] % 64>> \o B64(SubSeq(bytes, 4, Len(bytes)))

\* what the upstream may do with one GET: answer with a status and a body,
\* or fail in transport (httpx raises; the text of a timeout is empty)
Responses ==
    {[kind |-> "http", status_code |-> 200, content |-> <<137, 80, 78, 71>>],
     [kind |-> "http", status_code |-> 500, content |-> <<>>],
     [kind |-> "transport", status_code |-> 0, content |-> <<>>]}

\* str(e) of the exception raised inside the try of lines 67-79
InnerError(resp) ==
    IF resp.kind = "transport" THEN <<>>
    ELSE <<"API returned status ">> \o DecimalText(resp.status_code)

\* an error text that is the inner exception's text alone
BareError(inner) == inner

\* line 83: Exception(f"Image generation failed: {str(e)}")
WrapError(inner) == <<"Image generation failed: ">> \o inner

\* a client for which any answer of the upstream is an image
PollinationsAnyAnswer(resp) ==
    IF resp.kind = "http"
    THEN [ok |-> TRUE,
          value |-> [scheme |-> "data:image/png;base64,", data |-> B64(resp.content)],
          error |-> <<>>]
    ELSE [ok |-> FALSE,
          value |-> [scheme |-> "", data |-> <<>>],
          error |-> WrapError(InnerError(resp))]

\* lines 62-83: the data URL on status 200, the wrapped exception otherwise
Pollinations(resp) ==
    IF resp.kind = "http" /\ resp.status_code = 200
    THEN [ok |-> TRUE,
          value |-> [scheme |-> "data:image/png;base64,", data |-> B64(resp.content)],
          error |-> <<>>]
    ELSE [ok |-> FALSE,
          value |-> [scheme |-> "", data |-> <<>>],
          error |-> WrapError(InnerError(resp))]

----------------------------------------------------------------------------
(* generate_character_variants *)

\* lines 148-155
style_variations ==
    <<"anime style, clean cel shading, bright colors, detailed eyes",
      "manga style, black and white lineart, high contrast",
      "anime portrait, soft lighting, pastel colors, gentle expression",
      "manga character sheet, multiple angles, reference design",
      "anime art style, dynamic pose, vibrant background",
      "manga illustration, traditional style, detailed shading">>

Styles == 1..Len(style_variations)

\* the requests tried
FanRequests ==
    [name : {"Aki"}, description : {None, Some("a tall swordsman")},
     age : {None, Some(0), Some(17)}]

\* lines 141-145
BasePrompt(request) ==
    <<"manga style character portrait, ", request.name>>
    \o (IF TruthyStr(request.description)
        THEN <<", ", request.description[1]>> ELSE <<>>)
    \o (IF TruthyInt(request.age)
        THEN <<", ">> \o DecimalText(request.age[1]) \o <<" years old">> ELSE <<>>)

\* line 160
FullPrompt(request, i) ==
    BasePrompt(request) \o <<", ", style_variations[i], ", high quality, detailed">>

NoResult == [ok |-> FALSE, value |-> [scheme |-> "", data |-> <<>>], error |-> <<>>]

NoTask == [st |-> "none", prompt |-> <<>>, result |-> NoResult]

Settled(i) == tasks[i].st = "settled"

\* lines 137-164: the prompts are built, the coroutines created and handed
\* to asyncio.gather, which schedules every one of them
FanStart(request) ==
    /\ fan_pc = "idle"
    /\ fan_pc' = "gather"
    /\ fan_request' = request
    /\ tasks' = [i \in Styles |->
                   [NoTask EXCEPT !.st = "pending", !.prompt = FullPrompt(request, i)]]
    /\ UNCHANGED <<fan_response, codeVars, bulkVars, storeVars>>

\* a call waits for every earlier call to have settled
CanSendInTurn(i) == tasks[i].st = "pending" /\ \A j \in 1..(i - 1) : Settled(j)

\* a scheduled task runs up to its GET whatever the other tasks are doing
CanSend(i) == tasks[i].st = "pending"

\* lines 68-72 in task i: the GET is sent, the task waits for the answer
TaskSend(i) ==
    /\ fan_pc = "gather"
    /\ CanSend(i)
    /\ tasks' = [tasks EXCEPT ![i].st = "sent"]
    /\ UNCHANGED <<fan_pc, fan_request, fan_response, codeVars, bulkVars, storeVars>>

\* lines 72-83 in task i: the answer or the transport failure arrives
TaskSettle(i, resp) ==
    /\ fan_pc = "gather"
    /\ tasks[i].st = "sent"
    /\ tasks' = [tasks EXCEPT ![i].st = "settled", ![i].result = Pollinations(resp)]
    /\ UNCHANGED <<fan_pc, fan_request, fan_response, codeVars, bulkVars, storeVars>>

\* gather without return_exceptions: the first failure ends the wait
GatherFirstFailure ==
    \/ \A i \in Styles : Settled(i)
    \/ \E i \in Styles : Settled(i) /\ ~tasks[i].result.ok

\* line 164: gather(..., return_exceptions=True) returns when all have settled
GatherDone == \A i \in Styles : Settled(i)

\* lines 166-176: one variant per result that is no exception, in order
RECURSIVE Variants(_, _)
Variants(request, n) ==
    IF n = 0 THEN <<>>
    ELSE Variants(request, n - 1) \o
         (IF ~tasks[n].result.ok THEN <<>>
          ELSE <<[variant_id |-> n,
                  image_url |-> tasks[n].result.value,
                  style |-> style_variations[n],
                  prompt_used |-> BasePrompt(request) \o <<", ", style_variations[n]>>]>>)

\* an error as soon as one call has failed
SomeFailed(variants) == Len(variants) < Len(style_variations)

\* line 178: if not variants
NoVariants(variants) == variants = <<>>

\* a count of the calls made instead of the variants kept
CountAll(variants) == Len(style_variations)

\* line 184: len(variants)
TotalGenerated(variants) == Len(variants)

\* lines 164-190: the results are read once gather has returned
FanCompose ==
    /\ fan_pc = "gather"
    /\ GatherDone
    /\ fan_pc' = "done"
    /\ LET variants == Variants(fan_request, Len(style_variations)) IN
       fan_response' =
           IF NoVariants(variants)
           THEN [status |-> 500, detail |-> "All image generation attempts failed",
                 character_name |-> "", variants |-> <<>>, total_generated |-> 0]
           ELSE [status |-> 200, detail |-> "",
                 character_name |-> fan_request.name, variants |-> variants,
                 total_generated |-> TotalGenerated(variants)]
    /\ UNCHANGED <<fan_request, tasks, codeVars, bulkVars, storeVars>>

----------------------------------------------------------------------------
(* bulk_generate_characters *)

\* the character specifications tried as items of a bulk request
BulkItems ==
    {[name |-> "Aki", description |-> Some("a tall swordsman"), age |-> Some(17),
      height_cm |-> None],
     [name |-> "Rin", description |-> None, age |-> Some(0), height_cm |-> Some(150)]}

RECURSIVE SeqsUpTo(_, _)
SeqsUpTo(S, n) ==
    IF n = 0 THEN {<<>>}
    ELSE SeqsUpTo(S, n - 1) \cup
         {Append(q, x) : q \in {p \in SeqsUpTo(S, n - 1) : Len(p) = n - 1}, x \in S}

\* lines 466-471
BulkPrompt(char_data) ==
    <<"manga style character portrait, ", char_data.name>>
    \o (IF TruthyStr(char_data.description)
        THEN <<", ", char_data.description[1]>> ELSE <<>>)
    \o (IF TruthyInt(char_data.age)
        THEN <<", ">> \o DecimalText(char_data.age[1]) \o <<" years old">> ELSE <<>>)
    \o <<", anime art style, character design, high quality">>

\* the for of line 463 moves to item i, or the handler returns after the last
BulkGoto(i) ==
    IF i > Len(bulk_input)
    THEN /\ bulk_pc' = "done"
         /\ bulk_i' = i
         /\ bulk_prompt' = <<>>
    ELSE /\ bulk_pc' = "call"
         /\ bulk_i' = i
         /\ bulk_prompt' = BulkPrompt(bulk_input[i])

\* line 461 and the first iteration
BulkStart(characters_in) ==
    /\ bulk_pc = "idle"
    /\ bulk_input' = characters_in
    /\ results' = <<>>
    /\ bulk_calls' = <<>>
    /\ IF Len(characters_in) = 0
       THEN bulk_pc' = "done" /\ bulk_i' = 1 /\ bulk_prompt' = <<>>
       ELSE /\ bulk_pc' = "call"
            /\ bulk_i' = 1
            /\ bulk_prompt' = BulkPrompt(characters_in[1])
    /\ UNCHANGED <<codeVars, fanVars, storeVars>>

\* lines 476-483 and 489-497: the record appended for an item
ResultRecord(char_data, out) ==
    [name |-> char_data.name,
     description |-> char_data.description,
     age |-> char_data.age,
     height_cm |-> char_data.height_cm,
     image_url |-> IF out.ok THEN Some(out.value) ELSE None,
     generated |-> out.ok,
     error |-> IF out.ok THEN None ELSE Some(out.error)]

\* a loop whose try encloses the for: the first failure ends the batch
AfterFailureAbort(i) == Len(bulk_input) + 1

\* the except of line 488 is inside the loop: the next item follows
AfterFailure(i) == i + 1

\* lines 474-497: the generation call of item bulk_i settles
BulkSettle(resp) ==
    /\ bulk_pc = "call"
    /\ LET out == Pollinations(resp) IN
       /\ results' = Append(results, ResultRecord(bulk_input[bulk_i], out))
       /\ bulk_calls' = Append(bulk_calls,
                               [item |-> bulk_i, ok |-> out.ok, resp |-> resp])
       /\ IF out.ok
          THEN /\ bulk_pc' = "sleep"
               /\ UNCHANGED <<bulk_i, bulk_prompt>>
          ELSE BulkGoto(AfterFailure(bulk_i))
    /\ UNCHANGED <<bulk_input, codeVars, fanVars, storeVars>>

\* line 486: asyncio.sleep(2) is over
BulkWake ==
    /\ bulk_pc = "sleep"
    /\ BulkGoto(bulk_i + 1)
    /\ UNCHANGED <<bulk_input, results, bulk_calls, codeVars, fanVars, storeVars>>

----------------------------------------------------------------------------
(* The handlers that take a character id *)

\* .filter(models.Character.id == character_id).first() of a stored id
CharacterById(character_id) == CHOOSE r \in characters : r.id = character_id

\* lines 512-515: the costume of that id that belongs to the character
CostumeOf(costume_id, character_id) ==
    {x \in costumes : x.id = costume_id /\ x.character_id = character_id}

\* the costume ids a caller may name: those stored, and one that is not
CostumeIdsToTry == {x.id : x \in costumes} \cup {0}

\* an UPDATE of one row
Replace(rows, old, new) == (rows \ {old}) \cup {new}

\* the handler returns normally
Found(r) == [r EXCEPT !.pc = "done", !.status = 200]

\* GET /characters/{id}, lines 91-101
GetCharacter(c, character_id) ==
    /\ StartReq(c)
    /\ LET r == [Idle EXCEPT !.op = "get_character", !.character_id = character_id]
       IN req' = [req EXCEPT ![c] =
                    IF ExistsCharacter(character_id) THEN Found(r) ELSE NotFound(r)]
    /\ UNCHANGED <<char_code_unique, characters, costumes, age_states, nextId,
                   maxIssued, ndeleted, fanVars, bulkVars, storeVars>>

\* GET /characters/{id}/costumes, lines 306-312
GetCharacterCostumes(c, character_id) ==
    /\ StartReq(c)
    /\ LET r == [Idle EXCEPT !.op = "get_character_costumes",
                             !.character_id = character_id]
       IN req' = [req EXCEPT ![c] =
                    IF ExistsCharacter(character_id) THEN Found(r) ELSE NotFound(r)]
    /\ UNCHANGED <<char_code_unique, characters, costumes, age_states, nextId,
                   maxIssued, ndeleted, fanVars, bulkVars, storeVars>>

\* an image reference that was not generated here
UploadedImage == [scheme |-> "https://", data |-> <<1>>]

\* character.dict(exclude_unset=True) of the update requests tried
UpdateBodies == {[name |-> "Rin"], [image_url |-> Some(UploadedImage), age |-> Some(0)]}

\* lines 439-441: setattr for every field the request set
SetFields(row, update_data) ==
    [k \in DOMAIN row |-> IF k \in DOMAIN update_data THEN update_data[k] ELSE row[k]]

\* PUT /characters/{id}, lines 429-445; a commit that raises is not caught
\* and the framework answers 500
UpdateCharacter(c, character_id, update_data) ==
    /\ StartReq(c)
    /\ \E ok \in CommitOutcomes :
       LET r == [Idle EXCEPT !.op = "update_character", !.character_id = character_id]
       IN IF ~ExistsCharacter(character_id)
          THEN req' = [req EXCEPT ![c] = NotFound(r)] /\ UNCHANGED characters
          ELSE IF ~ok
          THEN req' = [req EXCEPT ![c] = Fail500(r)] /\ UNCHANGED characters
          ELSE /\ req' = [req EXCEPT ![c] = Found(r)]
               /\ characters' = Replace(characters, CharacterById(character_id),
                                        SetFields(CharacterById(character_id),
                                                  update_data))
    /\ UNCHANGED <<char_code_unique, costumes, age_states, nextId, maxIssued,
                   ndeleted, fanVars, bulkVars, storeVars>>

\* lines 205-211
AvatarPrompt(character, style_preference) ==
    <<"manga style character portrait, ", character.name>>
    \o (IF TruthyStr(character.description)
        THEN <<", ", character.description[1]>> ELSE <<>>)
    \o (IF TruthyInt(character.age)
        THEN <<", ">> \o DecimalText(character.age[1]) \o <<" years old">> ELSE <<>>)
    \o <<", ", style_preference, ", high quality, character design">>

\* POST /characters/{id}/generate-avatar, lines 199-215: the lookup, the
\* prompt, and the generation call is sent
AvatarStart(c, character_id) ==
    /\ StartReq(c)
    /\ LET r == [Idle EXCEPT !.op = "generate_character_avatar",
                             !.character_id = character_id]
       IN IF ~ExistsCharacter(character_id)
          THEN req' = [req EXCEPT ![c] = NotFound(r)] /\ UNCHANGED outbound
          ELSE /\ req' = [req EXCEPT ![c] =
                            [r EXCEPT !.pc = "avatar_call",
                                      !.prompt = AvatarPrompt(CharacterById(character_id),
                                                              "anime style")]]
               /\ outbound' = outbound + 1
    /\ UNCHANGED <<char_code_unique, characters, costumes, age_states, nextId,
                   maxIssued, ndeleted, fanVars, bulkVars, character_changes,
                   generation_history, db_faults>>

\* a row of generation_history as generate_character_avatar writes it
HistoryRow(entity_id, prompt, success, error_message) ==
    [entity_type |-> "character", entity_id |-> entity_id, prompt_used |-> prompt,
     success |-> success, error_message |-> error_message]

\* lines 224-230
SuccessRow(r) == HistoryRow(r.character_id, r.prompt, TRUE, None)

\* a failure logged as if the generation had succeeded
FailureRowAsSuccess(r, error) == HistoryRow(r.character_id, r.prompt, TRUE, None)

\* lines 242-248
FailureRow(r, error) == HistoryRow(r.character_id, r.prompt, FALSE, Some(error))

\* lines 215-252, from the answer of the generation call to the response.
\* oks[1] is the outcome of the commit of line 221, oks[2] of line 232 and
\* oks[3] of line 250.  The UPDATE of a character another session deleted
\* during the call matches no row: the flush raises, and the commit of line
\* 250 raises in turn because the session was not rolled back.  After a
\* commit that raised for another reason the commit of line 250 may raise as
\* well or start a new transaction and succeed.
AvatarSettle(c, resp) ==
    /\ req[c].pc = "avatar_call"
    /\ \E oks \in [1..3 -> CommitOutcomes] :
       LET r == req[c]
           out == Pollinations(resp)
           present == ExistsCharacter(r.character_id)
           stored1 == out.ok /\ present /\ oks[1]
           stored2 == stored1 /\ oks[2]
           error == IF ~out.ok THEN out.error
                    ELSE IF ~present THEN <<"StaleDataError">>
                    ELSE <<"commit failed">>
           logged == ~stored2 /\ (out.ok => present) /\ oks[3]
       IN /\ characters' =
                IF stored1
                THEN Replace(characters, CharacterById(r.character_id),
                             [CharacterById(r.character_id) EXCEPT
                                 !.image_url = Some(out.value)])
                ELSE characters
          /\ generation_history' =
                IF stored2 THEN Append(generation_history, SuccessRow(r))
                ELSE IF logged THEN Append(generation_history, FailureRow(r, error))
                ELSE generation_history
          /\ req' = [req EXCEPT ![c] =
                       [r EXCEPT !.pc = "done",
                                 !.upstream = IF out.ok THEN "ok" ELSE "failed",
                                 !.status = IF stored2 THEN 200 ELSE 500]]
    /\ UNCHANGED <<char_code_unique, costumes, age_states, nextId, nreq, maxIssued,
                   ndeleted, fanVars, bulkVars, character_changes, outbound,
                   db_faults>>

\* str() of an Optional[str] inside an f-string
StrOpt(o) == IF o = None THEN "None" ELSE o[1]

\* lines 520-523
CostumeImagePrompt(character, costume) ==
    <<"manga style character, ", character.name, " wearing ",
      StrOpt(costume.description), ", ", costume.name>>
    \o (IF TruthyInt(character.age)
        THEN <<", ">> \o DecimalText(character.age[1]) \o <<" years old">> ELSE <<>>)
    \o <<", anime art style, costume design, full body">>

\* POST /characters/{id}/costumes/{costume_id}/generate-image, lines 508-525:
\* the two lookups, the prompt, and the generation call is sent
CostumeImageStart(c, character_id, costume_id) ==
    /\ StartReq(c)
    /\ LET r == [Idle EXCEPT !.op = "generate_costume_image",
                             !.character_id = character_id,
                             !.costume_id = costume_id]
       IN IF ~ExistsCharacter(character_id) \/ CostumeOf(costume_id, character_id) = {}
          THEN req' = [req EXCEPT ![c] = NotFound(r)] /\ UNCHANGED outbound
          ELSE /\ req' = [req EXCEPT ![c] =
                            [r EXCEPT !.pc = "costume_call",
                                      !.prompt =
                                          CostumeImagePrompt(
                                              CharacterById(character_id),
                                              CHOOSE x \in CostumeOf(costume_id,
                                                                     character_id) : TRUE)]]
               /\ outbound' = outbound + 1
    /\ UNCHANGED <<char_code_unique, characters, costumes, age_states, nextId,
                   maxIssued, ndeleted, fanVars, bulkVars, character_changes,
                   generation_history, db_faults>>

\* lines 525-535, from the answer of the generation call to the response: the
\* image reference is stored with one commit; a failed call, a commit that
\* raises and the UPDATE of a costume deleted during the call all end in the
\* except of line 534
CostumeImageSettle(c, resp) ==
    /\ req[c].pc = "costume_call"
    /\ \E ok \in CommitOutcomes :
       LET r == req[c]
           out == Pollinations(resp)
           rows == CostumeOf(r.costume_id, r.character_id)
           stored == out.ok /\ rows # {} /\ ok
       IN /\ costumes' =
                IF stored
                THEN Replace(costumes, CHOOSE x \in rows : TRUE,
                             [(CHOOSE x \in rows : TRUE) EXCEPT
                                 !.image_url = Some(out.value)])
                ELSE costumes
          /\ req' = [req EXCEPT ![c] =
                       [r EXCEPT !.pc = "done",
                                 !.upstream = IF out.ok THEN "ok" ELSE "failed",
                                 !.status = IF stored THEN 200 ELSE 500]]
    /\ UNCHANGED <<char_code_unique, characters, age_states, nextId, nreq,
                   maxIssued, ndeleted, fanVars, bulkVars, storeVars>>

----------------------------------------------------------------------------
(* get_character_analytics *)

RECURSIVE SumAges(_)
SumAges(rows) ==
    IF rows = {} THEN 0
    ELSE LET r == CHOOSE x \in rows : TRUE IN r.age[1] + SumAges(rows \ {r})

\* round(x, 1) of x = total / n, in tenths: to the nearest tenth, a tie to the
\* even one
RoundTenths(total, n) ==
    LET q == (10 * total) \div n
        rem == (10 * total) % n
    IN IF 2 * rem < n THEN q
       ELSE IF 2 * rem > n THEN q + 1
       ELSE IF q % 2 = 0 THEN q ELSE q + 1

\* the keys of age_groups, lines 412-415
AgeGroups == {"Child (0-12)", "Teen (13-19)", "Adult (20-64)", "Elder (65+)"}

\* the condition of each list comprehension of lines 412-415 after `c.age and`
InGroup(group, age) ==
    CASE group = "Child (0-12)"  -> age <= 12
      [] group = "Teen (13-19)"  -> 13 <= age /\ age <= 19
      [] group = "Adult (20-64)" -> 20 <= age /\ age <= 64
      [] group = "Elder (65+)"   -> age >= 65

\* `c.age and <condition>`: the truthiness of the age comes first
Counted(c, group) == TruthyInt(c.age) /\ InGroup(group, c.age[1])

\* `if c.image_url`, line 418
HasAvatar(c) == c.image_url # None /\ c.image_url[1].scheme # ""

\* lines 396-426: the summary of the rows read; average_age is in tenths
Analytics(rows) ==
    IF rows = {}
    THEN [total_characters |-> 0, average_age |-> Some(0), age_groups |-> <<>>,
          characters_with_avatars |-> 0, recent_creations |-> 0]
    ELSE LET valid == {c \in rows : c.age # None} IN
         [total_characters |-> Cardinality(rows),
          average_age |-> IF valid # {}
                          THEN Some(RoundTenths(SumAges(valid), Cardinality(valid)))
                          ELSE Some(0),
          age_groups |-> [g \in AgeGroups |->
                             Cardinality({c \in rows : Counted(c, g)})],
          characters_with_avatars |-> Cardinality({c \in rows : HasAvatar(c)}),
          recent_creations |-> Cardinality(rows)]

\* GET /characters/analytics/summary, lines 394-426
GetCharacterAnalytics(c) ==
    /\ StartReq(c)
    /\ req' = [req EXCEPT ![c] =
                 [Idle EXCEPT !.op = "get_character_analytics", !.pc = "done",
                              !.status = 200, !.response = Some(Analytics(characters))]]
    /\ UNCHANGED <<char_code_unique, characters, costumes, age_states, nextId,
                   maxIssued, ndeleted, fanVars, bulkVars, storeVars>>

----------------------------------------------------------------------------
(* Specifications *)

HighRow ==
    [id |-> HighStart, code |-> NewCode("C", HighStart), name |-> "Aki",
     description |-> None, age |-> None, image_url |-> None]

\* no related row, no history, no call so far, and a store whose commits succeed
StoreIdle ==
    /\ character_changes = {}
    /\ generation_history = <<>>
    /\ outbound = 0
    /\ db_faults = FALSE

FanIdle ==
    /\ fan_pc = "idle"
    /\ fan_request = [name |-> "", description |-> None, age |-> None]
    /\ tasks = [i \in Styles |-> NoTask]
    /\ fan_response = [status |-> 0, detail |-> "", character_name |-> "",
                       variants |-> <<>>, total_generated |-> 0]

BulkIdle ==
    /\ bulk_pc = "idle"
    /\ bulk_input = <<>>
    /\ bulk_i = 1
    /\ bulk_prompt = <<>>
    /\ results = <<>>
    /\ bulk_calls = <<>>

InitCode ==
    /\ FanIdle
    /\ BulkIdle
    /\ StoreIdle
    /\ char_code_unique \in BOOLEAN
    /\ characters \in {{}, {HighRow}}
    /\ costumes = {}
    /\ age_states = {}
    /\ nextId = IF characters = {} THEN 1 ELSE HighStart + 1
    /\ req = [c \in Clients |-> Idle]
    /\ nreq = 0
    /\ maxIssued = IF characters = {} THEN 0 ELSE HighStart
    /\ ndeleted = 0

Step(c) == GenQuery(c) \/ GenCheck(c) \/ Insert(c)

\* fewer than MaxMixed requests have been started
Mixed == nreq < MaxMixed

\* a request of any kind
Begin(c) ==
    \/ Mixed /\ StartCreateCharacter(c)
    \/ \E id \in IdsToTry : Mixed /\ StartCreateDependent(c, "create_costume", id)
    \/ \E id \in IdsToTry : Mixed /\ StartCreateDependent(c, "create_age_state", id)
    \/ \E id \in IdsToTry : Mixed /\ DeleteCharacter(c, id)

\* a request of any kind, started while no other request is in flight
BeginAlone(c) ==
    \/ Mixed /\ Quiet(c) /\ StartCreateCharacter(c)
    \/ \E id \in IdsToTry :
          Mixed /\ Quiet(c) /\ StartCreateDependent(c, "create_costume", id)
    \/ \E id \in IdsToTry :
          Mixed /\ Quiet(c) /\ StartCreateDependent(c, "create_age_state", id)
    \/ \E id \in IdsToTry : Mixed /\ Quiet(c) /\ DeleteCharacter(c, id)

\* requests of any number of clients, interleaved at the statements that
\* reach the store
Next == \E c \in Clients : Begin(c) \/ Step(c)

Spec == InitCode /\ [][Next]_vars

\* one request at a time
NextSeq == \E c \in Clients : BeginAlone(c) \/ Step(c)

SpecSeq == InitCode /\ [][NextSeq]_vars

\* one request followed statement by statement while other sessions commit
\* whole create_character requests in between, from an empty table
InitRetry == InitCode /\ characters = {}

NextRetry ==
    \E c \in Clients :
        \/ Quiet(c) /\ StartCreateCharacter(c)
        \/ CreateCharacterAtomic(c)
        \/ Step(c)

SpecRetry == InitRetry /\ [][NextRetry]_vars

\* a character that sorts after every digit, as the letters do
Letter == 10

\* a suffix int() raises ValueError for
Malformed(s) == s = <<>> \/ \E i \in 1..Len(s) : s[i] \notin Digit

\* a row whose code did not come from generate_code
ImportedRow(id, suffix) ==
    [id |-> id, code |-> [prefix |-> "C", suffix |-> suffix], name |-> "Aki",
     description |-> None, age |-> None, image_url |-> None]

\* tables whose greatest code has a suffix that is no number
ImportedTables ==
    LET odd == ImportedRow(1, <<0, 0, Letter, 1>>)
        first == ImportedRow(2, Format04(1))
        second == ImportedRow(3, Format04(2))
    IN {{odd}, {odd, first}, {odd, first, second}}

InitImported ==
    /\ FanIdle
    /\ BulkIdle
    /\ StoreIdle
    /\ char_code_unique \in BOOLEAN
    /\ characters \in ImportedTables
    /\ costumes = {}
    /\ age_states = {}
    /\ nextId = 4
    /\ req = [c \in Clients |-> Idle]
    /\ nreq = 0
    /\ maxIssued = 0
    /\ ndeleted = 0

\* create_character requests, one at a time
NextImported ==
    \E c \in Clients :
        \/ Mixed /\ Quiet(c) /\ StartCreateCharacter(c)
        \/ Step(c)

SpecImported == InitImported /\ [][NextImported]_vars

\* the store as it is when no request of the code generator's handlers runs
CodeIdle ==
    /\ char_code_unique = FALSE
    /\ characters = {}
    /\ costumes = {}
    /\ age_states = {}
    /\ nextId = 1
    /\ req = [c \in Clients |-> Idle]
    /\ nreq = 0
    /\ maxIssued = 0
    /\ ndeleted = 0

\* one fan-out request
InitFan == CodeIdle /\ FanIdle /\ BulkIdle /\ StoreIdle

NextFan ==
    \/ \E request \in FanRequests : FanStart(request)
    \/ \E i \in Styles : TaskSend(i)
    \/ \E i \in Styles, resp \in Responses : TaskSettle(i, resp)
    \/ FanCompose

SpecFan == InitFan /\ [][NextFan]_vars

\* one bulk request
InitBulk == CodeIdle /\ FanIdle /\ BulkIdle /\ StoreIdle

NextBulk ==
    \/ \E characters_in \in SeqsUpTo(BulkItems, MaxBulk) : BulkStart(characters_in)
    \/ \E resp \in Responses : BulkSettle(resp)
    \/ BulkWake

SpecBulk == InitBulk /\ [][NextBulk]_vars

\* rows that were stored before the run
LegacyCharacters ==
    {[id |-> 1, code |-> NewCode("C", 1), name |-> "Aki",
      description |-> Some("a tall swordsman"), age |-> Some(17), image_url |-> None],
     [id |-> 2, code |-> NewCode("C", 2), name |-> "Rin",
      description |-> None, age |-> Some(0), image_url |-> Some(UploadedImage)]}

LegacyCostumes ==
    {[id |-> 1, code |-> NewCode("CO", 1), character_id |-> 1, name |-> "armor",
      description |-> Some("red plate armor"), image_url |-> None],
     [id |-> 2, code |-> NewCode("CO", 2), character_id |-> 2, name |-> "cloak",
      description |-> None, image_url |-> None]}

LegacyAgeStates ==
    {[id |-> 1, code |-> NewCode("A", 1), character_id |-> 1, age |-> 30,
      image_url |-> None]}

LegacyChanges ==
    {[id |-> 1, code |-> NewCode("CH", 1), character_id |-> 1],
     [id |-> 2, code |-> NewCode("CH", 2), character_id |-> 2]}

LegacyHistory ==
    <<HistoryRow(1, AvatarPrompt(CHOOSE r \in LegacyCharacters : r.id = 1, "anime style"),
                 FALSE, Some(WrapError(<<>>)))>>

\* a store with two characters and their related rows
InitEntity ==
    /\ FanIdle
    /\ BulkIdle
    /\ char_code_unique = FALSE
    /\ characters = LegacyCharacters
    /\ costumes = LegacyCostumes
    /\ age_states = LegacyAgeStates
    /\ character_changes = LegacyChanges
    /\ generation_history = LegacyHistory
    /\ outbound = 0
    /\ db_faults \in BOOLEAN
    /\ nextId = 3
    /\ req = [c \in Clients |-> Idle]
    /\ nreq = 0
    /\ maxIssued = 2
    /\ ndeleted = 0

\* fewer than MaxStore requests have been started; a request is served by
\* the first client that is free (the clients are interchangeable)
Entity(c) == nreq < MaxStore /\ \A d \in Clients : d < c => ~Free(d)

\* requests of any number of clients on the handlers that take a character
\* id and on create_character, interleaved where a handler awaits and at the
\* statements of generate_code
NextEntity ==
    \E c \in Clients :
        \/ \E id \in IdsToTry : Entity(c) /\ GetCharacter(c, id)
        \/ \E id \in IdsToTry : Entity(c) /\ GetCharacterCostumes(c, id)
        \/ \E id \in IdsToTry, update_data \in UpdateBodies :
              Entity(c) /\ UpdateCharacter(c, id, update_data)
        \/ \E id \in IdsToTry : Entity(c) /\ DeleteCharacter(c, id)
        \/ \E id \in IdsToTry : Entity(c) /\ AvatarStart(c, id)
        \/ \E resp \in Responses : AvatarSettle(c, resp)
        \/ \E id \in IdsToTry, costume_id \in CostumeIdsToTry :
              Entity(c) /\ CostumeImageStart(c, id, costume_id)
        \/ \E resp \in Responses : CostumeImageSettle(c, resp)
        \/ \E id \in IdsToTry : Entity(c) /\ StartCreateDependent(c, "create_costume", id)
        \/ \E id \in IdsToTry : Entity(c) /\ StartCreateDependent(c, "create_age_state", id)
        \/ Entity(c) /\ StartCreateCharacter(c)
        \/ Step(c)

SpecEntity == InitEntity /\ [][NextEntity]_vars

\* the ages and image references of the characters summarised
SampleAges == {None, Some(0), Some(5), Some(15), Some(30), Some(70)}

SampleImages == {None, Some(UploadedImage)}

\* the character of a given id, age and image reference
SampleRow(id, age, image_url) ==
    [id |-> id, code |-> NewCode("C", id), name |-> "Aki", description |-> None,
     age |-> age, image_url |-> image_url]

\* the tables of up to MaxChars characters with ids 1, 2, ...
RECURSIVE SampleTables(_)
SampleTables(n) ==
    IF n = 0 THEN {{}}
    ELSE SampleTables(n - 1) \cup
         {t \cup {SampleRow(n, age, image_url)} :
             t \in {u \in SampleTables(n - 1) : Cardinality(u) = n - 1},
             age \in SampleAges, image_url \in SampleImages}

\* any such table, and no request yet
InitAnalytics ==
    /\ FanIdle
    /\ BulkIdle
    /\ StoreIdle
    /\ char_code_unique = FALSE
    /\ characters \in SampleTables(MaxChars)
    /\ costumes = {}
    /\ age_states = {}
    /\ nextId = Cardinality(characters) + 1
    /\ req = [c \in Clients |-> Idle]
    /\ nreq = 0
    /\ maxIssued = Cardinality(characters)
    /\ ndeleted = 0

NextAnalytics == \E c \in Clients : Quiet(c) /\ GetCharacterAnalytics(c)

SpecAnalytics == InitAnalytics /\ [][NextAnalytics]_vars

----------------------------------------------------------------------------
(* Claims about the code generator *)

AllFree == \A c \in Clients : Free(c)

\* generate_code returns to its caller in this step
Returns(c) == req[c].pc = "gen_check" /\ req'[c].gen = "returned"

\* a request of client c ends in this step with HTTP 500
Ends500(c) == req'[c] # req[c] /\ req'[c].pc = "done" /\ req'[c].status = 500

\* an insert attempt of client c hits the uniqueness constraint in this step
Collides(c) == req[c].pc = "insert" /\ req'[c].collisions = req[c].collisions + 1

\* C1: once all concurrent create requests have finished, no two stored
\* character rows carry the same code.
C1_NoDuplicateCodes ==
    AllFree => \A r1, r2 \in characters : r1.code = r2.code => r1 = r2

\* C2: for each prefix/table pair the handlers use, a call of generate_code on
\* a table with no row for the prefix returns <prefix>-0001.
C2_FirstCode ==
    \A c \in Clients :
        (req[c].gen \in {"returned", "raised"} /\ req[c].emptyAtCall)
            => (req[c].gen = "returned" /\ req[c].new_code = NewCode(req[c].prefix, 1))

\* C3: single-threaded and with no deletion so far, every code generate_code
\* returns for prefix C has a number strictly greater than every code it
\* returned before (so the codes are pairwise distinct and increasing).
C3_IncreasingWithoutDeletes ==
    [][\A c \in Clients :
          (Returns(c) /\ req[c].prefix = "C" /\ ndeleted = 0)
              => ParseInt(req'[c].new_code.suffix) > maxIssued]_vars

C3_Witness ==
    /\ ndeleted = 0
    /\ AllFree
    /\ Cardinality(characters) >= 3
    /\ \E r \in characters : ParseInt(r.code.suffix) = maxIssued

\* C4: single-threaded, deletions included, every newly generated character
\* code has a number strictly greater than every code assigned before, so a
\* deleted character's code is never issued again.
C4_NeverReissued ==
    [][\A c \in Clients :
          (Returns(c) /\ req[c].prefix = "C")
              => ParseInt(req'[c].new_code.suffix) > maxIssued]_vars

\* C5 (as amended): create_character makes at most max_retries insert
\* attempts; an attempt that hits the uniqueness constraint leaves the table
\* as it was and is retried while attempts remain; the request ends with HTTP
\* 500 only when all max_retries insert attempts collided or generate_code
\* itself gave up, and then the request has added no row.
C5_RetryThenFail ==
    [][\A c \in Clients :
          req'[c].op = "create_character" =>
              /\ req'[c].collisions <= max_retries
              /\ req'[c].status = 200 => req'[c].collisions < max_retries
              /\ Collides(c) =>
                    /\ characters' = characters
                    /\ req'[c].collisions < max_retries => req'[c].pc = "gen_query"
              /\ Ends500(c) =>
                    /\ req'[c].collisions = max_retries \/ req'[c].gen = "raised"
                    /\ characters' = characters
                    /\ req'[c].added = {}]_vars

C5_Witness ==
    \E c \in Clients :
        /\ req[c].op = "create_character"
        /\ req[c].pc = "done"
        /\ req[c].status = 500
        /\ req[c].collisions = max_retries
        /\ req[c].added = {}

\* C5 (as stated): a create_character request ends with HTTP 500 only when
\* all max_retries insert attempts collided.
C5_OnlyAfterFiveCollisions ==
    [][\A c \in Clients :
          (req'[c].op = "create_character" /\ Ends500(c))
              => req'[c].collisions = max_retries]_vars

----------------------------------------------------------------------------
(* Claims about the fan-out workflow *)

\* the style calls that succeeded
Succeeded == {i \in Styles : tasks[i].result.ok}

\* C6: when all 6 generation calls fail the operation ends with the aggregate
\* error and no variant list; a failed call causes no error while at least
\* one other call succeeds.
C6_AggregateError ==
    fan_pc = "done" =>
        /\ Succeeded = {} =>
              /\ fan_response.status = 500
              /\ fan_response.detail = "All image generation attempts failed"
              /\ fan_response.variants = <<>>
        /\ Succeeded # {} => fan_response.status = 200

C6_Witness ==
    /\ fan_pc = "done"
    /\ \A i \in Styles : Settled(i) /\ ~tasks[i].result.ok
    /\ fan_response.status = 500

\* C7: for every non-empty set S of style calls that succeed the handler
\* returns exactly |S| variants, one per succeeded call and in the order of
\* the styles, and total_generated = |S|, which lies in 1..6.
C7_OneVariantPerSuccess ==
    (fan_pc = "done" /\ Succeeded # {}) =>
        LET v == fan_response.variants IN
        /\ Len(v) = Cardinality(Succeeded)
        /\ fan_response.total_generated = Cardinality(Succeeded)
        /\ fan_response.total_generated \in Styles
        /\ {v[k].variant_id : k \in 1..Len(v)} = Succeeded
        /\ \A k \in 1..Len(v) : v[k].image_url = tasks[v[k].variant_id].result.value
        /\ \A k \in 1..(Len(v) - 1) : v[k].variant_id < v[k + 1].variant_id

C7_Witness ==
    /\ fan_pc = "done"
    /\ Cardinality(Succeeded) = 4
    /\ Len(fan_response.variants) = 4
    /\ fan_response.total_generated = 4

\* C8: every scheduled call can be sent whatever state its siblings are in,
\* the response is composed only when all 6 calls have settled, and a call
\* that settles as a failure changes no sibling call.
C8_ConcurrentAndJoined ==
    /\ [](fan_pc = "gather" =>
             \A i \in Styles : tasks[i].st = "pending" => ENABLED TaskSend(i))
    /\ [](fan_pc = "done" => \A i \in Styles : Settled(i))
    /\ [][\A i \in Styles :
             (tasks[i].st = "sent" /\ tasks'[i].st = "settled" /\ ~tasks'[i].result.ok)
                 => \A j \in Styles \ {i} : tasks'[j] = tasks[j]]_vars

C8_Witness ==
    /\ fan_pc = "gather"
    /\ \A i \in Styles : tasks[i].st = "sent"

----------------------------------------------------------------------------
(* Claims about the bulk workflow *)

\* C9: the handler returns one record per input, the i-th describing the i-th
\* input, and every item is attempted once, in order, whatever failed before.
C9_OneResultPerInput ==
    bulk_pc = "done" =>
        /\ Len(results) = Len(bulk_input)
        /\ Len(bulk_calls) = Len(bulk_input)
        /\ \A i \in 1..Len(bulk_input) :
              /\ bulk_calls[i].item = i
              /\ results[i].name = bulk_input[i].name
              /\ results[i].description = bulk_input[i].description
              /\ results[i].age = bulk_input[i].age
              /\ results[i].height_cm = bulk_input[i].height_cm

C9_Witness ==
    /\ bulk_pc = "done"
    /\ Len(bulk_input) = 3
    /\ bulk_input[1] # bulk_input[2]
    /\ Len(results) = 3
    /\ bulk_calls[1].ok /\ ~bulk_calls[2].ok /\ bulk_calls[3].ok

\* C10: record i has generated = true and an image reference exactly when
\* call i succeeded, and generated = false, no image reference and a
\* non-empty error text exactly when call i failed.
C10_RecordMatchesOutcome ==
    /\ Len(results) = Len(bulk_calls)
    /\ \A i \in 1..Len(results) :
          IF bulk_calls[i].ok
          THEN /\ results[i].generated
               /\ results[i].image_url # None
               /\ results[i].image_url[1].scheme = "data:image/png;base64,"
          ELSE /\ ~results[i].generated
               /\ results[i].image_url = None
               /\ results[i].error # None
               /\ Len(results[i].error[1]) > 0

C10_Witness ==
    /\ bulk_pc = "done"
    /\ \E i \in 1..Len(results) : ~bulk_calls[i].ok /\ ~results[i].generated
    /\ \E i \in 1..Len(results) : bulk_calls[i].ok /\ results[i].generated

----------------------------------------------------------------------------
(* Claims about the handlers that take a character id *)

\* the generation call of an avatar request of client c fails in this step
AvatarFails(c) == req[c].pc = "avatar_call" /\ req'[c].upstream = "failed"

\* C11: when the generation call of generate_character_avatar fails, the
\* stored characters (their image references included) stay as they are, the
\* request ends with an error, and exactly one history row with success =
\* false and the error text is appended (none only if the store refuses the
\* commit of that row).
C11_AvatarFailureLogged ==
    [][\A c \in Clients :
          AvatarFails(c) =>
              /\ characters' = characters
              /\ req'[c].pc = "done"
              /\ req'[c].status = 500
              /\ \/ db_faults /\ generation_history' = generation_history
                 \/ /\ Len(generation_history') = Len(generation_history) + 1
                    /\ SubSeq(generation_history', 1, Len(generation_history))
                          = generation_history
                    /\ LET h == generation_history'[Len(generation_history')] IN
                       /\ h.entity_type = "character"
                       /\ h.entity_id = req[c].character_id
                       /\ h.prompt_used = req[c].prompt
                       /\ ~h.success
                       /\ h.error_message # None
                       /\ Len(h.error_message[1]) > 0
                       /\ h.error_message[1][1] = "Image generation failed: "]_vars

C11_Witness ==
    /\ ~db_faults
    /\ \E c \in Clients :
          /\ req[c].op = "generate_character_avatar"
          /\ req[c].pc = "done"
          /\ req[c].upstream = "failed"
          /\ req[c].status = 500
          /\ req[c].character_id = 2
          /\ \E r \in characters : r.id = 2 /\ r.image_url = Some(UploadedImage)
          /\ Len(generation_history) = Len(LegacyHistory) + 1
          /\ ~generation_history[Len(generation_history)].success
          /\ generation_history[Len(generation_history)].entity_id = 2

\* C12: every generation call a handler sends appends exactly one row to
\* generation_history, whether the call succeeds or fails.
C12_OneHistoryRowPerAttempt ==
    (AllFree /\ ~db_faults) =>
        Len(generation_history) = Len(LegacyHistory) + outbound

\* a delete_character request of client c is served in this step
Deletes(c) ==
    /\ Free(c)
    /\ req'[c] # req[c]
    /\ req'[c].op = "delete_character"

\* C13: delete_character on an existing character removes that character and
\* every costume, age state and character change that references it, and
\* leaves generation_history and the rows of other characters as they are.
C13_DeleteCascades ==
    [][\A c \in Clients :
          (Deletes(c) /\ ExistsCharacter(req'[c].character_id)) =>
              LET id == req'[c].character_id IN
              /\ req'[c].status = 200 \/ db_faults
              /\ req'[c].status = 200 =>
                    /\ characters' = {r \in characters : r.id # id}
                    /\ costumes' = {x \in costumes : x.character_id # id}
                    /\ age_states' = {x \in age_states : x.character_id # id}
                    /\ character_changes' =
                          {x \in character_changes : x.character_id # id}
                    /\ generation_history' = generation_history]_vars

C13_Witness ==
    \E c \in Clients :
        /\ req[c].op = "delete_character"
        /\ req[c].status = 200
        /\ req[c].character_id = 1
        /\ {r.id : r \in characters} = {2}
        /\ {x.character_id : x \in costumes} = {2}
        /\ age_states = {}
        /\ {x.character_id : x \in character_changes} = {2}
        /\ \E i \in 1..Len(generation_history) : generation_history[i].entity_id = 1

\* C14: a request that ends with an error leaves none of its changes in the
\* tables of the entities (no image reference updated by a request that
\* reports failure).
C14_FailedRequestStoresNothing ==
    [][\A c \in Clients :
          Ends500(c) =>
              /\ characters' = characters
              /\ costumes' = costumes
              /\ age_states' = age_states
              /\ character_changes' = character_changes]_vars

\* the operations that take a character id
IdOps ==
    {"get_character", "update_character", "delete_character",
     "generate_character_avatar", "create_costume", "get_character_costumes",
     "create_age_state", "generate_costume_image"}

\* client c starts such an operation in this step with an id that is not stored
StartsWithUnknownId(c) ==
    /\ Free(c)
    /\ nreq' = nreq + 1
    /\ req'[c].op \in IdOps
    /\ \A d \in Clients \ {c} : req'[d] = req[d]
    /\ (req'[c] # req[c] \/ req[c].status = 404)
    /\ ~ExistsCharacter(req'[c].character_id)

\* C15: every operation that takes a character id, called with an id that is
\* not stored, ends with the not-found error and leaves every table as it
\* is, with no history row and no generation call.
C15_UnknownIdChangesNothing ==
    [][\A c \in Clients :
          StartsWithUnknownId(c) =>
              /\ req'[c].pc = "done"
              /\ req'[c].status = 404
              /\ UNCHANGED <<characters, costumes, age_states, character_changes,
                             generation_history, outbound, nextId>>]_vars

C15_Witness ==
    /\ \E c \in Clients :
          /\ req[c].op = "generate_character_avatar"
          /\ req[c].pc = "done"
          /\ req[c].status = 404
          /\ ~ExistsCharacter(req[c].character_id)
    /\ nreq = MaxStore
    /\ outbound = 0
    /\ generation_history = LegacyHistory
    /\ characters = LegacyCharacters

\* C19: in every reachable state, also when a create_costume or
\* create_age_state request for a character is in flight while that character
\* is deleted, every costume, age state and character change references a
\* stored character.
C19_RelatedRowsReferenceCharacters ==
    /\ \A x \in costumes : ExistsCharacter(x.character_id)
    /\ \A x \in age_states : ExistsCharacter(x.character_id)
    /\ \A x \in character_changes : ExistsCharacter(x.character_id)

C19_Witness ==
    \E c \in Clients :
        /\ req[c].op \in {"create_costume", "create_age_state"}
        /\ req[c].pc = "done"
        /\ req[c].status = 500
        /\ req[c].character_id = 1
        /\ ~ExistsCharacter(1)
        /\ costumes # {}

----------------------------------------------------------------------------
(* Claims about backoff, pacing and the form of the codes *)

\* generate_code starts its next iteration after the pre-check found the
\* candidate taken
RetriesAfterPreCheck(c) == req[c].pc = "gen_check" /\ req'[c].pc = "gen_query"

\* the handler starts its next attempt after an insert hit the constraint
RetriesAfterInsert(c) == Collides(c) /\ req'[c].pc = "gen_query"

\* C16: every retry that follows a code collision, found by the pre-check or
\* raised at insert time, is preceded by a sleep of the base delay times the
\* number of the attempt that collided.
C16_BackoffBeforeEveryRetry ==
    [][\A c \in Clients :
          /\ RetriesAfterPreCheck(c) => req'[c].backoff = req'[c].gattempt
          /\ RetriesAfterInsert(c) => req'[c].backoff = req'[c].attempt]_vars

\* C17: in the bulk workflow the attempt for item i+1 starts only after the
\* sleep that follows attempt i, whether attempt i succeeded or failed.
C17_SleepBetweenAttempts ==
    [][(bulk_pc' = "call" /\ bulk_i' = bulk_i + 1) => bulk_pc = "sleep"]_vars

\* <PREFIX>-NNNN with exactly Width decimal digits
WellFormed(code, prefix) ==
    /\ code.prefix = prefix
    /\ Len(code.suffix) = Width
    /\ \A i \in 1..Len(code.suffix) : code.suffix[i] \in Digit

\* C18: every stored code is the prefix of its entity type followed by
\* exactly 4 decimal digits, also the code created after 9999.
C18_FourDigitCodes ==
    /\ \A r \in characters : WellFormed(r.code, "C")
    /\ \A r \in costumes : WellFormed(r.code, "CO")
    /\ \A r \in age_states : WellFormed(r.code, "A")

----------------------------------------------------------------------------
(* Claims about the image generation client *)

\* the upstream answered this call with status 200
Status200(resp) == resp.kind = "http" /\ resp.status_code = 200

\* C20: a generation call yields "data:image/png;base64," followed by the
\* base64 text of the body exactly when the upstream answered with status
\* 200; on any other status and on a transport failure it fails with the one
\* error "Image generation failed: ..."; no call reads or writes the store.
C20_DataUrlIffStatus200 ==
    /\ [](\A i \in 1..Len(bulk_calls) :
             IF Status200(bulk_calls[i].resp)
             THEN /\ results[i].image_url =
                        Some([scheme |-> "data:image/png;base64,",
                              data |-> B64(bulk_calls[i].resp.content)])
                  /\ results[i].error = None
             ELSE /\ results[i].image_url = None
                  /\ results[i].error # None
                  /\ results[i].error[1][1] = "Image generation failed: ")
    /\ [][bulk_calls' # bulk_calls => UNCHANGED <<codeVars, storeVars>>]_vars

C20_Witness ==
    /\ bulk_pc = "done"
    /\ Len(bulk_calls) = 3
    /\ bulk_calls[1].resp.kind = "transport"
    /\ bulk_calls[2].resp.status_code = 500
    /\ bulk_calls[3].resp.status_code = 200
    /\ results[3].image_url[1].data = <<34, 21, 1, 14, 17, 48, 64, 64>>
    /\ results[1].error[1][1] = results[2].error[1][1]

----------------------------------------------------------------------------
(* Claims about the variants and the analytics *)

\* C25: every variant returned by generate_character_variants carries the
\* 1-based index of its style template, that template, and as prompt_used
\* exactly the prompt that was sent to the image generation client for it.
C25_VariantDescribesItsCall ==
    fan_pc = "done" =>
        \A k \in 1..Len(fan_response.variants) :
            LET v == fan_response.variants[k] IN
            /\ v.variant_id \in Styles
            /\ v.style = style_variations[v.variant_id]
            /\ v.prompt_used = tasks[v.variant_id].prompt

\* the answer an analytics request of client c got
Summary(c) == req[c].response[1]

\* client c has been answered by get_character_analytics
Summarised(c) == req[c].op = "get_character_analytics" /\ req[c].pc = "done"

\* C21: on an empty character set get_character_analytics answers without
\* error, with the three counts zero, an empty age-bucket histogram and a
\* null average age.
C21_EmptySummary ==
    \A c \in Clients :
        (Summarised(c) /\ characters = {}) =>
            /\ req[c].status = 200
            /\ Summary(c).total_characters = 0
            /\ Summary(c).characters_with_avatars = 0
            /\ Summary(c).recent_creations = 0
            /\ Summary(c).age_groups = <<>>
            /\ Summary(c).average_age = None

RECURSIVE SumGroups(_, _)
SumGroups(age_groups, groups) ==
    IF groups = {} THEN 0
    ELSE LET g == CHOOSE x \in groups : TRUE
         IN age_groups[g] + SumGroups(age_groups, groups \ {g})

\* C26: for a non-empty character set every character with a non-null age,
\* age 0 included, is counted in exactly one age bucket, so the four counts
\* sum to the number of such characters, and total_characters is the number
\* of stored characters.
C26_EveryAgeInOneBucket ==
    \A c \in Clients :
        (Summarised(c) /\ characters # {}) =>
            /\ Summary(c).total_characters = Cardinality(characters)
            /\ DOMAIN Summary(c).age_groups = AgeGroups
            /\ SumGroups(Summary(c).age_groups, AgeGroups)
                  = Cardinality({x \in characters : x.age # None})

----------------------------------------------------------------------------
(* Claims about the candidates generate_code probes *)

\* the greatest stored code of the prefix of c's request has no number
LastIsMalformed(c) ==
    LET rows == WithPrefix(Table(req[c].model_class), req[c].prefix)
    IN rows # {} /\ Malformed(LastCode(rows).suffix)

\* C22: when the lexicographically greatest stored code of the prefix has a
\* non-numeric suffix, generate_code takes its number as 0 and still returns
\* a code that is not in the table; it never raises, whatever else the table
\* holds.
C22_MalformedLastCodeStillReturns ==
    [][\A c \in Clients :
          (req[c].pc = "gen_check" /\ LastIsMalformed(c)) =>
              /\ req[c].new_code = NewCode(req[c].prefix, 1)
              /\ req'[c].gen # "raised"
              /\ Returns(c) =>
                    ~PreCheckHit(Table(req[c].model_class), req[c].new_code)]_vars

\* C23: after a pre-check that found the candidate taken, the next iteration
\* of generate_code probes a code different from the one that just collided.
C23_RetryProbesAnotherCode ==
    [][\A c \in Clients :
          (/\ req[c].pc = "gen_query"
           /\ req[c].gattempt > 0
           /\ req'[c].pc = "gen_check") =>
              req'[c].new_code # req[c].new_code]_vars

\* C24: with a uniqueness constraint on the code column and no writer but
\* create_character, a request exhausts its attempts only if other inserts
\* for the prefix commit between its reads and its inserts; in a run where
\* the requests follow one another no insert commits while another request
\* is in flight, so every create_character is to succeed there.
C24_NoExhaustionWithoutCompetitors ==
    [][\A c \in Clients :
          (/\ char_code_unique
           /\ ndeleted = 0
           /\ costumes = {} /\ age_states = {}
           /\ req[c].op = "create_character"
           /\ Quiet(c)) => ~Ends500(c)]_vars

====
